---- MODULE Spec2Model ----
(***************************************************************************)
(* Surgical edit system of the website builder: the Safe Edit Engine       *)
(* (services/safe_edit_engine.py), the Edit History                        *)
(* (services/edit_history.py), the Component Registry                      *)
(* (services/component_registry.py), the edit router (routers/edit.py)     *)
(* that wires them together, and the generation of the pages they work on: *)
(* the identifier injector (agents/code_generator.py) and the multi-page   *)
(* generator (services/multi_page_generator.py).                           *)
(*                                                                         *)
(* Python strings that the code slices, strips or concatenates (element    *)
(* text, attribute values, CSS property names and values, class names) are *)
(* sequences of tokens; the token " " is whitespace.  Names that the code  *)
(* only compares (ncd ids, file names, tags, action names) are strings.    *)
(***************************************************************************)
EXTENDS Integers, Sequences, FiniteSets, TLC

VARIABLES
    html,          \* the HTML files of the session directory: file name -> parsed page
    css,           \* styles/main.css: sequence of rule blocks
    registryFile,  \* component_registry.json: ncd id -> component record
    historyDir,    \* .history/NNNNNN.json: version -> diff record
    req,           \* the structured_edit requests in flight (locals across the await)
    sessionStatus, \* session.status
    last,          \* the last handler step and its response
    registries,    \* the ComponentRegistry objects in memory: their components
    acked,         \* ghost: the ids whose register() call has returned
    gen,           \* the generation run: its position, base_html and next page
    returned,      \* ghost: versions returned by save_diff, in commit order
    liveAt,        \* ghost: version -> live value of the mutated property at the mutation
    snap           \* ghost: version -> (html, css) right after that diff was committed

vars == <<html, css, registryFile, historyDir, req, sessionStatus, last,
          registries, acked, gen, returned, liveAt, snap>>

(***************************************************************************)
(* Bounds of the model.                                                    *)
(***************************************************************************)
\* save_diff calls in one behaviour
MaxEdits == 2
\* structured_edit requests that may be in flight at once
Reqs == {"r1", "r2"}

(***************************************************************************)
(* Python values.                                                          *)
(***************************************************************************)
\* Python's None (JSON null); no real string holds this token
None == <<"<None>">>
\* a missing class attribute: element.get('class') finds nothing
NoClass == << <<"<absent>">> >>
EmptyStr == <<>>

IsSpace(c) == c = " "

\* str.strip(): drop leading and trailing whitespace
RECURSIVE LStrip(_)
LStrip(s) == IF s # <<>> /\ IsSpace(Head(s)) THEN LStrip(Tail(s)) ELSE s

RECURSIVE RStrip(_)
RStrip(s) ==
    IF s # <<>> /\ IsSpace(s[Len(s)]) THEN RStrip(SubSeq(s, 1, Len(s) - 1)) ELSE s

Strip(s) == RStrip(LStrip(s))

\* `x or ""`: None and "" are falsy
OrEmpty(x) == IF x = None \/ x = EmptyStr THEN EmptyStr ELSE x

\* regex `name\s*:` is not anchored on the left: it matches wherever the
\* declaration's property name ends with `name`
IsSuffix(name, prop) ==
    /\ Len(name) <= Len(prop)
    /\ SubSeq(prop, Len(prop) - Len(name) + 1, Len(prop)) = name

(***************************************************************************)
(* The parsed HTML page (BeautifulSoup tree).  A page is its top-level     *)
(* content and its nodes; content is a sequence of items, each a text      *)
(* string or a child element.                                              *)
(***************************************************************************)
NodeIds == 1..3
NoNode == 0

TextItem(s) == [kind |-> "text", s |-> s, n |-> NoNode]
ElemItem(n) == [kind |-> "elem", s |-> EmptyStr, n |-> n]

\* a node that is no longer part of the tree
GoneNode ==
    [live |-> FALSE, tag |-> "", id |-> "", attrs |-> <<>>, cls |-> NoClass,
     content |-> <<>>]

\* elements in document order below `items` (soup.find walks in this order)
RECURSIVE Walk(_, _)
Walk(page, items) ==
    IF items = <<>> THEN <<>>
    ELSE LET h == Head(items) IN
         (IF h.kind = "elem"
          THEN <<h.n>> \o Walk(page, page.nodes[h.n].content)
          ELSE <<>>) \o Walk(page, Tail(items))

\* soup.find(attrs={"data-ncd-id": ncd_id}): the first element carrying the id
Find(page, ncd_id) ==
    LET order == Walk(page, page.root)
        hits == {i \in 1..Len(order) : page.nodes[order[i]].id = ncd_id}
    IN IF hits = {} THEN NoNode
       ELSE order[CHOOSE i \in hits : \A j \in hits : i <= j]

\* element.get_text(strip=True): every string below the element, each stripped,
\* empty ones dropped, joined with ""
RECURSIVE GetText(_, _)
GetText(page, items) ==
    IF items = <<>> THEN <<>>
    ELSE LET h == Head(items) IN
         (IF h.kind = "text" THEN Strip(h.s)
          ELSE GetText(page, page.nodes[h.n].content)) \o GetText(page, Tail(items))

\* element.string = new_text: clear() drops every child, then one string is appended
SetString(page, n, new_text) ==
    LET below == {m \in DOMAIN page.nodes : \E i \in 1..Len(Walk(page, page.nodes[n].content)) :
                                     Walk(page, page.nodes[n].content)[i] = m}
    IN [page EXCEPT !.nodes =
           [m \in DOMAIN page.nodes |->
               IF m = n THEN [page.nodes[n] EXCEPT !.content = <<TextItem(new_text)>>]
               ELSE IF m \in below THEN GoneNode
               ELSE page.nodes[m]]]

\* prettify() writes every string stripped, on its own line, and drops the
\* strings that are empty after stripping; the next parse reads that back
RECURSIVE PrettyItems(_)
PrettyItems(items) ==
    IF items = <<>> THEN <<>>
    ELSE LET h == Head(items) IN
         (IF h.kind = "text"
          THEN (IF Strip(h.s) = <<>> THEN <<>> ELSE <<TextItem(Strip(h.s))>>)
          ELSE <<h>>) \o PrettyItems(Tail(items))

Prettify(page) ==
    [root |-> PrettyItems(page.root),
     nodes |-> [m \in DOMAIN page.nodes |->
                  [page.nodes[m] EXCEPT !.content = PrettyItems(@)]]]

\* element.get('class', []): the class list, [] when the attribute is missing
ClassList(node) == IF node.cls = NoClass THEN <<>> ELSE node.cls

InSeq(x, s) == \E i \in 1..Len(s) : s[i] = x

\* list.remove(x): drop the first occurrence
RECURSIVE RemoveFirst(_, _)
RemoveFirst(s, x) ==
    IF s = <<>> THEN <<>>
    ELSE IF Head(s) = x THEN Tail(s)
    ELSE <<Head(s)>> \o RemoveFirst(Tail(s), x)

(***************************************************************************)
(* Safe Edit Engine.  Every operation reads the file, mutates and writes   *)
(* it back; `ok = FALSE` is the ValueError raised before anything is       *)
(* written.                                                                *)
(***************************************************************************)
Raised(page) == [ok |-> FALSE, page |-> page, old_value |-> None]

UpdateHtmlText(page, ncd_id, new_text) ==
    LET element == Find(page, ncd_id) IN
    IF element = NoNode THEN Raised(page)
    ELSE [ok |-> TRUE,
          page |-> Prettify(SetString(page, element, new_text)),
          old_value |-> GetText(page, page.nodes[element].content)]

\* attrs holds the element's attributes other than data-ncd-id and class
UpdateHtmlAttribute(page, ncd_id, attribute, new_value) ==
    LET element == Find(page, ncd_id) IN
    IF element = NoNode THEN Raised(page)
    ELSE LET attrs == page.nodes[element].attrs IN
         [ok |-> TRUE,
          page |-> Prettify([page EXCEPT !.nodes[element].attrs =
                                (attribute :> new_value) @@ attrs]),
          old_value |-> IF attribute \in DOMAIN attrs THEN attrs[attribute]
                        ELSE EmptyStr]

\* mutant: the class is appended without looking for it in the list
AddHtmlClassAlways(page, ncd_id, class_name) ==
    LET element == Find(page, ncd_id) IN
    IF element = NoNode THEN [ok |-> FALSE, page |-> page, old_value |-> None,
                              classes |-> <<>>]
    ELSE LET current_classes == ClassList(page.nodes[element]) IN
         [ok |-> TRUE,
          page |-> Prettify([page EXCEPT !.nodes[element].cls =
                                Append(current_classes, class_name)]),
          old_value |-> None,
          classes |-> Append(current_classes, class_name)]

\* `classes` is the list the call returns: current_classes after the append
AddHtmlClass(page, ncd_id, class_name) ==
    LET element == Find(page, ncd_id) IN
    IF element = NoNode THEN [ok |-> FALSE, page |-> page, old_value |-> None,
                              classes |-> <<>>]
    ELSE LET current_classes == ClassList(page.nodes[element]) IN
         [ok |-> TRUE,
          page |-> Prettify(IF ~InSeq(class_name, current_classes)
                            THEN [page EXCEPT !.nodes[element].cls =
                                     Append(current_classes, class_name)]
                            ELSE page),
          old_value |-> None,
          classes |-> IF ~InSeq(class_name, current_classes)
                      THEN Append(current_classes, class_name)
                      ELSE current_classes]

RemoveHtmlClass(page, ncd_id, class_name) ==
    LET element == Find(page, ncd_id) IN
    IF element = NoNode THEN Raised(page)
    ELSE LET current_classes == ClassList(page.nodes[element]) IN
         [ok |-> TRUE,
          page |-> Prettify(IF InSeq(class_name, current_classes)
                            THEN [page EXCEPT !.nodes[element].cls =
                                     RemoveFirst(current_classes, class_name)]
                            ELSE page),
          old_value |-> None]

\* the selector f'[data-ncd-id="{ncd_id}"]'
Selector(ncd_id) == [attr |-> "data-ncd-id", value |-> ncd_id]

Decl(prop, val) == [prop |-> prop, val |-> val]

\* pattern.search(css_content): the first block of the selector
FindRule(sheet, ncd_id) ==
    LET hits == {i \in 1..Len(sheet) : sheet[i].sel = Selector(ncd_id)}
    IN IF hits = {} THEN 0 ELSE CHOOSE i \in hits : \A j \in hits : i <= j

\* prop_pattern matches: the declarations whose name ends with property_name
PropMatches(rule, property_name) ==
    {i \in 1..Len(rule) : IsSuffix(property_name, rule[i].prop)}

UpdateCssProperty(sheet, ncd_id, property_name, new_value) ==
    LET m == FindRule(sheet, ncd_id) IN
    IF m # 0
    THEN LET rule_content == sheet[m].decls
             hits == PropMatches(rule_content, property_name)
             first == CHOOSE i \in hits : \A j \in hits : i <= j
             \* prop_pattern.sub replaces every match; the text before the
             \* matched name (a longer property's prefix) stays
             new_rule ==
                 IF hits # {}
                 THEN [i \in 1..Len(rule_content) |->
                          IF i \in hits
                          THEN Decl(rule_content[i].prop, new_value)
                          ELSE rule_content[i]]
                 ELSE Append(rule_content, Decl(property_name, new_value))
         IN [sheet |-> \* css_content.replace: every block with the matched text
                       [i \in 1..Len(sheet) |->
                           IF sheet[i] = sheet[m]
                           THEN [sel |-> Selector(ncd_id), decls |-> new_rule]
                           ELSE sheet[i]],
             old_value |-> IF hits # {} THEN Strip(rule_content[first].val)
                           ELSE None]
    ELSE [sheet |-> Append(sheet, [sel |-> Selector(ncd_id),
                                   decls |-> <<Decl(property_name, new_value)>>]),
          old_value |-> None]

(***************************************************************************)
(* Edit History.  An EditHistory object is its current_version; the diffs  *)
(* are the files of the .history directory.                                *)
(***************************************************************************)
Max(S) == CHOOSE x \in S : \A y \in S : y <= x

\* mutant: the glob matches no diff file, so every object starts at 0
GetLatestVersionNoMatch(dir) == 0

\* EditHistory.__init__ / _get_latest_version
GetLatestVersion(dir) == IF DOMAIN dir = {} THEN 0 ELSE Max(DOMAIN dir)

\* the record save_diff writes (its timestamp is not modelled)
Diff(version, file_path, ncd_id, before, after, edit_type) ==
    [version |-> version, file |-> file_path, ncd_id |-> ncd_id,
     edit_type |-> edit_type, before |-> before, after |-> after]

\* save_diff on an object whose counter is current_version: the counter is
\* incremented and the file of that number is written (open(..., 'w') replaces
\* whatever file is there)
SaveDiff(dir, current_version, file_path, ncd_id, before, after, edit_type) ==
    LET version == current_version + 1 IN
    [version |-> version,
     dir |-> (version :> Diff(version, file_path, ncd_id, before, after, edit_type))
             @@ dir]

HasDiff(dir, version) == version \in DOMAIN dir

GetDiff(dir, version) == IF HasDiff(dir, version) THEN dir[version] ELSE None

\* mutant: the loop also visits the target version itself
RECURSIVE DiffsDownInclusive(_, _, _)
DiffsDownInclusive(dir, v, version) ==
    IF v < version \/ v < 1 THEN <<>>
    ELSE (IF v \in DOMAIN dir THEN <<dir[v]>> ELSE <<>>)
         \o DiffsDownInclusive(dir, v - 1, version)

\* for v in range(current_version, version, -1): the diffs that exist
RECURSIVE DiffsDown(_, _, _)
DiffsDown(dir, v, version) ==
    IF v <= version THEN <<>>
    ELSE (IF HasDiff(dir, v) THEN <<dir[v]>> ELSE <<>>) \o DiffsDown(dir, v - 1, version)

\* mutant: only a target above the current version is refused
RollbackToUnchecked(dir, current_version, version) ==
    IF version > current_version
    THEN [ok |-> FALSE, diffs |-> <<>>]
    ELSE [ok |-> TRUE, diffs |-> DiffsDown(dir, current_version, version)]

\* rollback_to: ok = FALSE is ValueError("Invalid version")
RollbackTo(dir, current_version, version) ==
    IF version > current_version \/ version < 0
    THEN [ok |-> FALSE, diffs |-> <<>>]
    ELSE [ok |-> TRUE, diffs |-> DiffsDown(dir, current_version, version)]

\* get_history(limit): range(current_version, max(0, current_version - limit), -1)
GetHistory(dir, current_version, limit) ==
    DiffsDown(dir, current_version,
              IF current_version - limit > 0 THEN current_version - limit ELSE 0)

(***************************************************************************)
(* Inputs.                                                                 *)
(***************************************************************************)
Welcome == <<"Welcome">>
Home == <<"Home">>
Hi == <<"Hi">>
PaddedHi == <<" ", "Hi", " ">>
Red == <<"red">>
Blue == <<"blue">>
Color == <<"color">>
BackgroundColor == <<"background-", "color">>
Highlight == <<"highlight">>
Title == <<"title">>
HomeUrl == <<"#home">>
PricingUrl == <<"pricing.html">>

IndexFile == "index.html"
CssFile == "styles/main.css"

\* the ids the injector stamped into index.html, and one it never assigned
PageIds == {"ncd-0001", "ncd-0002", "ncd-0003"}
\* the ids register() is called with
RegisterIds == {"ncd-0001", "ncd-0002"}

\* the edit type the injector derives from the tag
EditTypeOf(tag) ==
    IF tag \in {"h1", "h2", "h3", "h4", "h5", "h6", "p", "span"} THEN "text"
    ELSE IF tag = "a" THEN "link"
    ELSE IF tag = "button" THEN "button"
    ELSE IF tag = "img" THEN "image"
    ELSE "element"

\* planner results: the five known actions with their parameters, and an
\* action the engine does not know
Plans ==
    {[action |-> "UPDATE_TEXT", parameters |-> ("new_text" :> t)] :
        t \in {PaddedHi}}
    \cup {[action |-> "UPDATE_STYLE", parameters |-> ("property" :> p @@ "value" :> v)] :
        p \in {Color, BackgroundColor}, v \in {Red}}
    \cup {[action |-> "UPDATE_ATTRIBUTE",
           parameters |-> ("attribute" :> "href" @@ "value" :> PricingUrl)]}
    \cup {[action |-> a, parameters |-> ("class_name" :> Highlight)] :
        a \in {"ADD_CLASS", "REMOVE_CLASS"}}
    \cup {[action |-> "DELETE_ELEMENT", parameters |-> <<>>]}

\* params.get(key, ""): the attribute name is a plain string, every other
\* parameter a token sequence
ParamGet(params, key) ==
    IF key \in DOMAIN params THEN params[key]
    ELSE IF key = "attribute" THEN "" ELSE EmptyStr

\* rollback targets a request may carry: from below 0 to above the latest version
Targets(dir) == (0 - 1)..(GetLatestVersion(dir) + 1)
\* get_edit_history's default limit
DefaultLimit == 20

(***************************************************************************)
(* agents/code_generator.py: the identifier injector, and                  *)
(* services/multi_page_generator.py: the navigation post-processing of a   *)
(* generated page.                                                         *)
(***************************************************************************)
EditableTags ==
    {"h1", "h2", "h3", "h4", "h5", "h6", "p", "a", "button", "span", "div",
     "section", "article"}

\* f"ncd-{component_counter:04d}" for the counters a page of NodeIds can reach
NcdId(component_counter) == <<"ncd-0001", "ncd-0002", "ncd-0003">>[component_counter]

\* mutant: the injector does not look for an identifier the tag already has
HasNcdIdNever(node) == FALSE

\* tag.get('data-ncd-id') is truthy
HasNcdId(node) == node.id # ""

\* the loop over soup.find_all(editable_tags), in document order
RECURSIVE Stamp(_, _, _, _)
Stamp(page, order, component_counter, ncd_ids) ==
    IF order = <<>>
    THEN [page |-> page, component_counter |-> component_counter, ncd_ids |-> ncd_ids]
    ELSE LET n == Head(order)
             tag == page.nodes[n]
             ncd_id == NcdId(component_counter + 1)
         IN IF tag.tag \notin EditableTags
            THEN Stamp(page, Tail(order), component_counter, ncd_ids)
            ELSE IF HasNcdId(tag)
            THEN Stamp(page, Tail(order), component_counter, Append(ncd_ids, tag.id))
            ELSE Stamp([page EXCEPT !.nodes[n] =
                          [tag EXCEPT !.id = ncd_id,
                                      !.attrs = ("data-ncd-file" :> <<IndexFile>>
                                                 @@ "data-ncd-type" :> <<EditTypeOf(tag.tag)>>)
                                                @@ tag.attrs]],
                       Tail(order), component_counter + 1, Append(ncd_ids, ncd_id))

\* the comment "/* NCD Scoped Styles */" and the empty block of every id
ScopedMarker == [sel |-> [attr |-> "comment", value |-> "NCD Scoped Styles"], decls |-> <<>>]

\* mutant: the marker is appended without a block
ScopedBlocksNone(ncd_ids) == <<>>

ScopedBlocks(ncd_ids) ==
    [i \in 1..Len(ncd_ids) |-> [sel |-> Selector(ncd_ids[i]), decls |-> <<>>]]

\* _inject_ncd_attributes(code): `assigned` is the final component_counter,
\* the number of identifiers this run assigned
InjectNcdAttributes(code) ==
    LET stamped == Stamp(code.html, Walk(code.html, code.html.root), 0, <<>>) IN
    [html |-> Prettify(stamped.page),
     css |-> IF InSeq(ScopedMarker, code.css) THEN code.css
             ELSE code.css \o <<ScopedMarker>> \o ScopedBlocks(stamped.ncd_ids),
     assigned |-> stamped.component_counter]

\* str.strip('/')
RECURSIVE StripSlash(_)
StripSlash(s) ==
    IF s # <<>> /\ Head(s) = "/" THEN StripSlash(Tail(s))
    ELSE IF s # <<>> /\ s[Len(s)] = "/" THEN StripSlash(SubSeq(s, 1, Len(s) - 1))
    ELSE s

\* str.replace('/', '-')
ReplaceSlash(s) == [i \in 1..Len(s) |-> IF s[i] = "/" THEN "-" ELSE s[i]]

Active == <<"active">>

\* _post_process_navigation, for one element: an internal link gets the file
\* name of its page as href, and the class active when it points to this page
NavLink(a, current_slug) ==
    IF a.tag # "a" \/ "href" \notin DOMAIN a.attrs THEN a
    ELSE LET href == a.attrs["href"]
             target_slug == StripSlash(href)
             new_href == IF target_slug = <<>> \/ target_slug = <<"index">>
                         THEN <<"index", ".html">>
                         ELSE IF target_slug[Len(target_slug)] # ".html"
                         THEN ReplaceSlash(target_slug) \o <<".html">>
                         ELSE href
             linked == [a EXCEPT !.attrs = ("href" :> new_href) @@ a.attrs]
             classes == ClassList(a)
         IN IF href # <<>> /\ Head(href) \in {"http", "#"} THEN a
            ELSE IF href = current_slug
            THEN [linked EXCEPT !.cls = IF InSeq(Active, classes) THEN classes
                                        ELSE Append(classes, Active)]
            ELSE linked

PostProcessNavigation(page, current_slug) ==
    Prettify([page EXCEPT !.nodes = [m \in DOMAIN page.nodes |-> NavLink(page.nodes[m], current_slug)]])

\* BeautifulSoup("")
EmptyPage == [root |-> <<>>, nodes |-> [m \in NodeIds |-> GoneNode]]

AboutFile == "about.html"
ContactFile == "contact.html"

\* the slugs of the blueprint's pages, in the blueprint's order
BlueprintPages == << <<"/">>, <<"about">>, <<"/", "contact">> >>

\* the file of a page: index.html for "/" and "index", else
\* f"{page_slug.strip('/').replace('/', '-')}.html"
FileName(page_slug) ==
    IF page_slug = <<"/">> \/ page_slug = <<"index">> THEN IndexFile
    ELSE IF ReplaceSlash(StripSlash(page_slug)) = <<"about">> THEN AboutFile
    ELSE ContactFile

\* no generation run is going on
GenDone == [pc |-> "done", base |-> EmptyPage, next |-> 0]

Tag(tag, id, attrs, cls, content) ==
    [live |-> TRUE, tag |-> tag, id |-> id, attrs |-> attrs, cls |-> cls,
     content |-> content]

\* the stylesheet the language model returns
BaseCss == << [sel |-> [attr |-> "", value |-> "body"], decls |-> <<Decl(Color, <<"black">>)>>] >>

\* the markup the language model returned for index.html: a section holding
\* a heading, then a link
RawIndex ==
    [root |-> <<ElemItem(1), ElemItem(3)>>,
     nodes |-> <<Tag("section", "", <<>>, NoClass, <<ElemItem(2)>>),
                 Tag("h1", "", <<>>, <<Title>>, <<TextItem(Welcome)>>),
                 Tag("a", "", ("href" :> HomeUrl), NoClass, <<TextItem(Home)>>)>>]

\* index.html as generated (a single-page site: base_html as injected)
IndexPage == InjectNcdAttributes([html |-> RawIndex, css |-> BaseCss]).html

\* main.css as generated: the base rules, then the injector's marker comment
\* and the scoped block of every id, holding only a comment
MainCss == InjectNcdAttributes([html |-> RawIndex, css |-> BaseCss]).css

\* the record register() stores for an element of index.html
ComponentOf(ncd_id) ==
    LET tag == IndexPage.nodes[Find(IndexPage, ncd_id)].tag IN
    [file |-> IndexFile, type |-> tag, edit_type |-> EditTypeOf(tag),
     selector |-> Selector(ncd_id)]

(***************************************************************************)
(* Component Registry.                                                     *)
(***************************************************************************)
\* ComponentRegistry objects that may be alive at once
Insts == {"a", "b"}

\* a slot that holds no object
NoRegistry == [loaded |-> FALSE, components |-> <<>>]

\* __init__ and _load: the object's components are what the file holds now
\* (nothing when there is no file)
LoadRegistry(file) == [loaded |-> TRUE, components |-> file]

\* register(): self.components[ncd_id] is set, whether or not the id is there
\* (metadata and created_at are not modelled)
Register(components, ncd_id, file_path, element_type, edit_type, selector) ==
    (ncd_id :> [file |-> file_path, type |-> element_type, edit_type |-> edit_type,
                selector |-> selector]) @@ components

\* register() for an element of index.html on a registry holding `components`;
\* the whole map is then saved
RegisterComponent(components, ncd_id) ==
    LET c == ComponentOf(ncd_id)
    IN Register(components, ncd_id, c.file, c.type, c.edit_type, c.selector)

\* registry.get(ncd_id) finds a component
Registered(components, ncd_id) == ncd_id \in DOMAIN components

\* component_registry.json once register() has been called for RegisterIds
RECURSIVE RegisterAll(_, _)
RegisterAll(components, ids) ==
    IF ids = {} THEN components
    ELSE LET ncd_id == CHOOSE x \in ids : TRUE
         IN RegisterAll(RegisterComponent(components, ncd_id), ids \ {ncd_id})

(***************************************************************************)
(* State when editing starts: the files are generated, the components of   *)
(* RegisterIds are registered, the history is empty and no request is in   *)
(* flight.                                                                 *)
(***************************************************************************)
\* a new request takes the first free slot
Earlier(q, r) == q = "r1" /\ r = "r2"

Idle == [pc |-> "idle", ncd_id |-> "", component |-> <<>>, current_version |-> 0]

Resp(op, ncd_id, target, status, detail, version, versions) ==
    [op |-> op, ncd_id |-> ncd_id, target |-> target, status |-> status,
     detail |-> detail, version |-> version, versions |-> versions]

Init ==
    /\ html = (IndexFile :> IndexPage)
    /\ css = MainCss
    /\ registryFile = RegisterAll(<<>>, RegisterIds)
    /\ historyDir = <<>>
    /\ req = [r \in Reqs |-> Idle]
    /\ sessionStatus = "website_generated"
    /\ last = Resp("none", "", 0, 0, "", 0, <<>>)
    /\ registries = [i \in Insts |-> NoRegistry]
    /\ acked = {}
    /\ gen = GenDone
    /\ returned = <<>>
    /\ liveAt = <<>>
    /\ snap = (0 :> [html |-> (IndexFile :> IndexPage), css |-> MainCss])

(***************************************************************************)
(* routers/edit.py: structured_edit.  The handler runs up to its only      *)
(* await (the planner call) in one step and from there to its end in a     *)
(* second step; other requests run in between.                             *)
(***************************************************************************)
\* lines 40-85: registry and history are built, the component is looked up, the
\* planner is called.  (The current value read for the planner changes nothing.)
StructuredEditBegin(r, ncd_id) ==
    /\ req[r].pc = "idle"
    /\ \A q \in Reqs : Earlier(q, r) => req[q].pc = "await"
    /\ IF ~Registered(registryFile, ncd_id)
       THEN /\ last' = Resp("structured_edit", ncd_id, 0, 404,
                            "Component not found in registry", 0, <<>>)
            /\ UNCHANGED req
       ELSE /\ req' = [req EXCEPT ![r] =
                         [pc |-> "await", ncd_id |-> ncd_id,
                          component |-> registryFile[ncd_id],
                          current_version |-> GetLatestVersion(historyDir)]]
            /\ UNCHANGED last
    /\ UNCHANGED <<html, css, registryFile, historyDir, sessionStatus,
                   registries, acked, gen, returned, liveAt, snap>>

\* mutant: the error is swallowed and the request goes on as after an edit
FailedQuietly(h, c, detail) ==
    [ok |-> TRUE, html |-> h, css |-> c, detail |-> "", file |-> IndexFile,
     before |-> None, after |-> None, edit_type |-> ""]

\* lines 92-171: what the engine call of the planned action does to the files,
\* and the arguments of the save_diff that follows it
Failed(h, c, detail) ==
    [ok |-> FALSE, html |-> h, css |-> c, detail |-> detail, file |-> "",
     before |-> None, after |-> None, edit_type |-> ""]

Done(h, c, file, before, after, edit_type) ==
    [ok |-> TRUE, html |-> h, css |-> c, detail |-> "", file |-> file,
     before |-> before, after |-> after, edit_type |-> edit_type]

\* mutant: the engine's ValueError is swallowed and the diff is saved anyway
HtmlEditUnchecked(h, c, file, result, before, after, edit_type) ==
    Done([h EXCEPT ![file] = result.page], c, file, before, after, edit_type)

HtmlEdit(h, c, file, result, before, after, edit_type) ==
    IF result.ok
    THEN Done([h EXCEPT ![file] = result.page], c, file, before, after, edit_type)
    ELSE Failed(h, c, "Element not found")

ExecutePlan(h, c, component, ncd_id, edit_plan) ==
    LET action == edit_plan.action
        params == edit_plan.parameters
        file == component.file
    IN
    IF action = "UPDATE_STYLE"
    THEN LET result == UpdateCssProperty(c, ncd_id, ParamGet(params, "property"),
                                         ParamGet(params, "value"))
         IN Done(h, result.sheet, CssFile, result.old_value,
                 ParamGet(params, "value"), "style")
    ELSE IF action \notin {"UPDATE_TEXT", "UPDATE_ATTRIBUTE", "ADD_CLASS", "REMOVE_CLASS"}
    THEN Failed(h, c, "Unknown action")
    ELSE IF file \notin DOMAIN h
    THEN Failed(h, c, "No such file")
    ELSE IF action = "UPDATE_TEXT"
    THEN LET result == UpdateHtmlText(h[file], ncd_id, ParamGet(params, "new_text"))
         IN HtmlEdit(h, c, file, result, result.old_value,
                     ParamGet(params, "new_text"), "text")
    ELSE IF action = "UPDATE_ATTRIBUTE"
    THEN LET result == UpdateHtmlAttribute(h[file], ncd_id,
                                           ParamGet(params, "attribute"),
                                           ParamGet(params, "value"))
         IN HtmlEdit(h, c, file, result, result.old_value,
                     ParamGet(params, "value"), "attribute")
    ELSE IF action = "ADD_CLASS"
    THEN LET result == AddHtmlClass(h[file], ncd_id, ParamGet(params, "class_name"))
         IN HtmlEdit(h, c, file, result, EmptyStr,
                     ParamGet(params, "class_name"), "add_class")
    ELSE LET result == RemoveHtmlClass(h[file], ncd_id, ParamGet(params, "class_name"))
         IN HtmlEdit(h, c, file, result, ParamGet(params, "class_name"),
                     EmptyStr, "remove_class")

\* ghost: the value the mutated text, attribute, style property or class
\* membership has in the files, read directly from them
LiveValue(h, c, component, ncd_id, edit_plan) ==
    LET action == edit_plan.action
        params == edit_plan.parameters
        page == h[component.file]
        element == page.nodes[Find(page, ncd_id)]
    IN
    IF action # "UPDATE_STYLE" /\ Find(page, ncd_id) = NoNode THEN None
    ELSE IF action = "UPDATE_TEXT" THEN GetText(page, element.content)
    ELSE IF action = "UPDATE_ATTRIBUTE"
    THEN (IF ParamGet(params, "attribute") \in DOMAIN element.attrs
          THEN element.attrs[ParamGet(params, "attribute")] ELSE EmptyStr)
    ELSE IF action = "UPDATE_STYLE"
    THEN LET m == FindRule(c, ncd_id)
             hits == IF m = 0 THEN {}
                     ELSE {i \in 1..Len(c[m].decls) :
                              c[m].decls[i].prop = ParamGet(params, "property")}
         IN IF hits = {} THEN None
            ELSE Strip(c[m].decls[CHOOSE i \in hits : \A j \in hits : i <= j].val)
    ELSE IF InSeq(ParamGet(params, "class_name"), ClassList(element))
         THEN ParamGet(params, "class_name") ELSE EmptyStr

\* lines 87-193: the planned action is executed and, when the engine did not
\* raise, the diff is saved on the request's own EditHistory object
StructuredEditFinish(r, edit_plan) ==
    /\ req[r].pc = "await"
    /\ LET ncd_id == req[r].ncd_id
           component == req[r].component
           out == ExecutePlan(html, css, component, ncd_id, edit_plan)
           saved == SaveDiff(historyDir, req[r].current_version, out.file, ncd_id,
                             out.before, out.after, out.edit_type)
       IN IF out.ok
          THEN /\ html' = out.html
               /\ css' = out.css
               /\ historyDir' = saved.dir
               /\ sessionStatus' = "editing"
               /\ last' = Resp("structured_edit", ncd_id, 0, 200, "", saved.version,
                               <<>>)
               /\ returned' = Append(returned, saved.version)
               /\ liveAt' = (saved.version :> LiveValue(html, css, component, ncd_id,
                                                        edit_plan)) @@ liveAt
               /\ snap' = (saved.version :> [html |-> out.html, css |-> out.css]) @@ snap
          ELSE /\ last' = Resp("structured_edit", ncd_id, 0, 500, out.detail, 0, <<>>)
               /\ UNCHANGED <<html, css, historyDir, sessionStatus, returned,
                              liveAt, snap>>
    /\ req' = [req EXCEPT ![r] = Idle]
    /\ UNCHANGED <<registryFile, registries, acked, gen>>

(***************************************************************************)
(* routers/edit.py: rollback_edit and get_edit_history.  Neither awaits:   *)
(* each runs in one step.                                                  *)
(***************************************************************************)
\* lines 222-240: the diffs are replayed in the returned order, each file is
\* written as its diff is replayed; an engine error ends the loop
RECURSIVE Replay(_, _, _)
Replay(diffs, h, c) ==
    IF diffs = <<>> THEN [ok |-> TRUE, html |-> h, css |-> c]
    ELSE LET diff == Head(diffs) IN
         IF diff.edit_type = "text"
         THEN IF diff.file \notin DOMAIN h
              THEN [ok |-> FALSE, html |-> h, css |-> c]
              ELSE LET result == UpdateHtmlText(h[diff.file], diff.ncd_id, diff.before)
                   IN IF result.ok
                      THEN Replay(Tail(diffs), [h EXCEPT ![diff.file] = result.page], c)
                      ELSE [ok |-> FALSE, html |-> h, css |-> c]
         ELSE IF diff.edit_type = "style"
         \* the diff has no "property" key: diff.get("property", "") is ""
         THEN Replay(Tail(diffs), h,
                     UpdateCssProperty(c, diff.ncd_id, EmptyStr,
                                       OrEmpty(diff.before)).sheet)
         ELSE Replay(Tail(diffs), h, c)

RollbackEdit(version) ==
    LET current_version == GetLatestVersion(historyDir)
        plan == RollbackTo(historyDir, current_version, version)
        out == Replay(plan.diffs, html, css)
    IN
    /\ IF ~plan.ok
       THEN /\ last' = Resp("rollback", "", version, 500, "Invalid version", 0, <<>>)
            /\ UNCHANGED <<html, css>>
       ELSE /\ html' = out.html
            /\ css' = out.css
            /\ last' = IF out.ok
                       THEN Resp("rollback", "", version, 200, "", version, plan.diffs)
                       ELSE Resp("rollback", "", version, 500, "Element not found", 0,
                                 plan.diffs)
    /\ UNCHANGED <<registryFile, historyDir, req, sessionStatus, registries, acked,
                   gen, returned, liveAt, snap>>

GetEditHistory(limit) ==
    LET current_version == GetLatestVersion(historyDir) IN
    /\ last' = Resp("history", "", limit, 200, "", current_version,
                    GetHistory(historyDir, current_version, limit))
    /\ UNCHANGED <<html, css, registryFile, historyDir, req, sessionStatus,
                   registries, acked, gen, returned, liveAt, snap>>

(***************************************************************************)
(* Specifications.                                                         *)
(***************************************************************************)
Next ==
    \/ \E r \in Reqs, ncd_id \in PageIds : StructuredEditBegin(r, ncd_id)
    \/ \E r \in Reqs, edit_plan \in Plans :
          Len(returned) < MaxEdits /\ StructuredEditFinish(r, edit_plan)
    \/ \E version \in Targets(historyDir) : RollbackEdit(version)
    \/ GetEditHistory(DefaultLimit)

Spec == Init /\ [][Next]_vars

\* one request at a time: a structured_edit starts only when none is awaiting
NoneInFlight == \A r \in Reqs : req[r].pc = "idle"

SeqNext ==
    \/ \E r \in Reqs, ncd_id \in PageIds :
          NoneInFlight /\ StructuredEditBegin(r, ncd_id)
    \/ \E r \in Reqs, edit_plan \in Plans :
          Len(returned) < MaxEdits /\ StructuredEditFinish(r, edit_plan)
    \/ \E version \in Targets(historyDir) : NoneInFlight /\ RollbackEdit(version)
    \/ NoneInFlight /\ GetEditHistory(DefaultLimit)

SpecSeq == Init /\ [][SeqNext]_vars

\* planner results that name a known action and carry no parameters
IncompletePlans ==
    {[action |-> a, parameters |-> <<>>] :
        a \in {"UPDATE_TEXT", "UPDATE_STYLE", "UPDATE_ATTRIBUTE", "ADD_CLASS",
               "REMOVE_CLASS"}}

\* one request at a time, the planner also answering with incomplete plans
PlanNext ==
    \/ SeqNext
    \/ \E r \in Reqs, edit_plan \in IncompletePlans :
          Len(returned) < MaxEdits /\ StructuredEditFinish(r, edit_plan)

SpecPlan == Init /\ [][PlanNext]_vars

(***************************************************************************)
(* services/component_registry.py on its own: objects are created and      *)
(* register() is called on them, starting without a registry file.         *)
(***************************************************************************)
\* ComponentRegistry(session_dir)
NewRegistry(i) ==
    /\ registries' = [registries EXCEPT ![i] = LoadRegistry(registryFile)]
    /\ UNCHANGED <<html, css, registryFile, historyDir, req, sessionStatus, last,
                   acked, gen, returned, liveAt, snap>>

\* registry.register(ncd_id, file_path, element_type, edit_type, selector) on
\* object i: the entry is set in memory and _save() writes the object's whole
\* map over the file
RegisterCall(i, ncd_id, file_path, element_type) ==
    /\ registries[i].loaded
    /\ LET components == Register(registries[i].components, ncd_id, file_path,
                                  element_type, EditTypeOf(element_type),
                                  Selector(ncd_id))
       IN /\ registries' = [registries EXCEPT ![i].components = components]
          /\ registryFile' = components
    /\ acked' = acked \cup {ncd_id}
    /\ UNCHANGED <<html, css, historyDir, req, sessionStatus, last, gen,
                   returned, liveAt, snap>>

InitRegistry ==
    /\ html = (IndexFile :> IndexPage)
    /\ css = MainCss
    /\ registryFile = <<>>
    /\ historyDir = <<>>
    /\ req = [r \in Reqs |-> Idle]
    /\ sessionStatus = "website_generated"
    /\ last = Resp("none", "", 0, 0, "", 0, <<>>)
    /\ registries = [i \in Insts |-> NoRegistry]
    /\ acked = {}
    /\ gen = GenDone
    /\ returned = <<>>
    /\ liveAt = <<>>
    /\ snap = (0 :> [html |-> (IndexFile :> IndexPage), css |-> MainCss])

RegistryNext ==
    \/ \E i \in Insts : NewRegistry(i)
    \/ \E i \in Insts, ncd_id \in RegisterIds, file_path \in {IndexFile, AboutFile} :
          RegisterCall(i, ncd_id, file_path, "h1")

SpecRegistry == InitRegistry /\ [][RegistryNext]_vars

(***************************************************************************)
(* A generation run: code_generator.generate produces the index page, then *)
(* multi_page_generator.generate_pages goes through the blueprint's pages. *)
(* (A page whose generate_page call fails takes _generate_fallback_page,   *)
(* which runs no injection; that branch is not part of this model.)        *)
(***************************************************************************)
\* markup the language model may return: containers with children, links to
\* the site's pages, a tag the injector does not stamp, a tag that already
\* carries an identifier
RawPages ==
    { [root |-> <<ElemItem(1), ElemItem(3)>>,
       nodes |-> <<Tag("section", "", <<>>, NoClass, <<ElemItem(2)>>),
                   Tag("h1", "", <<>>, <<Title>>, <<TextItem(Welcome)>>),
                   Tag("a", "", ("href" :> <<"/">>), NoClass, <<TextItem(Home)>>)>>],
      [root |-> <<ElemItem(1), ElemItem(2), ElemItem(3)>>,
       nodes |-> <<Tag("h2", "", <<>>, NoClass, <<TextItem(<<"About">>)>>),
                   Tag("p", "", <<>>, NoClass, <<TextItem(<<" ", "Us", " ">>)>>),
                   Tag("a", "", ("href" :> <<"about">>), <<Active>>,
                       <<TextItem(<<"About">>)>>)>>],
      [root |-> <<ElemItem(1), ElemItem(3)>>,
       nodes |-> <<Tag("ul", "", <<>>, NoClass, <<ElemItem(2)>>),
                   Tag("a", "", ("href" :> <<"/", "contact">>), NoClass,
                       <<TextItem(<<"Contact">>)>>),
                   Tag("p", "", <<>>, NoClass, <<TextItem(<<"Mail">>)>>)>>],
      [root |-> <<ElemItem(1), ElemItem(2), ElemItem(3)>>,
       nodes |-> <<Tag("h1", "hero", <<>>, NoClass, <<TextItem(Welcome)>>),
                   Tag("img", "", ("src" :> <<"logo.png">>), NoClass, <<>>),
                   Tag("a", "", ("href" :> <<"#", "top">>), NoClass,
                       <<TextItem(<<"Top">>)>>)>>] }

\* code_generator.generate: the returned markup goes through the injector
Generate(raw) ==
    /\ gen.pc = "generate"
    /\ LET code == InjectNcdAttributes([html |-> raw, css |-> BaseCss])
       IN /\ gen' = [pc |-> "pages", base |-> code.html, next |-> 1]
          /\ css' = code.css
    /\ UNCHANGED <<html, registryFile, historyDir, req, sessionStatus, last,
                   registries, acked, returned, liveAt, snap>>

\* one iteration of generate_pages' loop: the index page is base_html, every
\* other page is generate_page's markup (injected there); both get their
\* navigation post-processed
GeneratePagesStep(raw) ==
    /\ gen.pc = "pages"
    /\ LET page_slug == BlueprintPages[gen.next]
           filename == FileName(page_slug)
           page_html ==
               IF filename = IndexFile
               THEN PostProcessNavigation(gen.base, page_slug)
               ELSE PostProcessNavigation(
                        InjectNcdAttributes([html |-> raw, css |-> <<>>]).html,
                        page_slug)
       IN html' = (filename :> page_html) @@ html
    /\ gen' = [gen EXCEPT !.next = @ + 1,
                          !.pc = IF gen.next = Len(BlueprintPages) THEN "done"
                                 ELSE "pages"]
    /\ UNCHANGED <<css, registryFile, historyDir, req, sessionStatus, last,
                   registries, acked, returned, liveAt, snap>>

InitGen ==
    /\ html = <<>>
    /\ css = <<>>
    /\ registryFile = <<>>
    /\ historyDir = <<>>
    /\ req = [r \in Reqs |-> Idle]
    /\ sessionStatus = "blueprint_confirmed"
    /\ last = Resp("none", "", 0, 0, "", 0, <<>>)
    /\ registries = [i \in Insts |-> NoRegistry]
    /\ acked = {}
    /\ gen = [pc |-> "generate", base |-> EmptyPage, next |-> 0]
    /\ returned = <<>>
    /\ liveAt = <<>>
    /\ snap = (0 :> [html |-> <<>>, css |-> <<>>])

\* a structured edit arrives once the site is generated
GenNext ==
    \/ \E raw \in RawPages : Generate(raw)
    \/ \E raw \in RawPages : GeneratePagesStep(raw)
    \/ \E ncd_id \in PageIds : gen.pc = "done" /\ StructuredEditBegin("r1", ncd_id)

SpecGen == InitGen /\ [][GenNext]_vars

(***************************************************************************)
(* services/nav_updater.py and routers/chat.py: a page is created and a    *)
(* link to it is added to the navigation of every other page.              *)
(***************************************************************************)
\* the first element of `order` that satisfies Test, NoNode when none does
FirstThat(order, Test(_)) ==
    LET hits == {i \in 1..Len(order) : Test(order[i])}
    IN IF hits = {} THEN NoNode ELSE order[CHOOSE i \in hits : \A j \in hits : i <= j]

\* the html id attribute of a node, "" when it has none
HtmlId(node) == IF "id" \in DOMAIN node.attrs THEN node.attrs["id"] ELSE EmptyStr

NavLinks == <<"nav-links">>

\* re.compile(r'nav-links|navigation|menu') finds a match in one of the classes
ClassMatchesNav(node) ==
    \E i \in 1..Len(ClassList(node)) : \E k \in 1..Len(ClassList(node)[i]) :
        ClassList(node)[i][k] \in {"nav-links", "navigation", "menu"}

\* _find_nav_element: the first pattern that finds an element
FindNavElement(page) ==
    LET order == Walk(page, page.root)
        IsTag(n, tag) == page.nodes[n].tag = tag
        nav == FirstThat(order, LAMBDA n : IsTag(n, "nav"))
        patterns ==
            << FirstThat(order, LAMBDA n : IsTag(n, "ul")
                                           /\ InSeq(NavLinks, ClassList(page.nodes[n]))),
               FirstThat(order, LAMBDA n : IsTag(n, "ul")
                                           /\ HtmlId(page.nodes[n]) = NavLinks),
               FirstThat(order, LAMBDA n : IsTag(n, "div")
                                           /\ HtmlId(page.nodes[n]) = NavLinks),
               IF nav # NoNode
               THEN FirstThat(Walk(page, page.nodes[nav].content),
                              LAMBDA n : IsTag(n, "ul"))
               ELSE NoNode,
               FirstThat(order, LAMBDA n : IsTag(n, "div")
                                           /\ ClassMatchesNav(page.nodes[n])) >>
    IN FirstThat(patterns, LAMBDA n : n # NoNode)

\* `sub in s` for strings
Contains(sub, s) ==
    \E i \in 0..(Len(s) - Len(sub)) : SubSeq(s, i + 1, i + Len(sub)) = sub

\* nav.find_all('a')
LinksOf(page, nav) ==
    SelectSeq(Walk(page, page.nodes[nav].content), LAMBDA n : page.nodes[n].tag = "a")

\* mutant: the navigation is never found to hold the link
LinkExistsNever(page, nav, filename) == FALSE

\* _link_exists: some link of the container has the file name in its href
LinkExists(page, nav, filename) ==
    \E i \in 1..Len(LinksOf(page, nav)) :
        LET link == page.nodes[LinksOf(page, nav)[i]]
        IN Contains(filename, IF "href" \in DOMAIN link.attrs THEN link.attrs["href"]
                              ELSE EmptyStr)

\* _add_nav_link: the new link takes the classes of the container's first
\* link and, when that link has data-ncd-file, the data-ncd attributes with
\* the drawn identifier; it is wrapped in <li> when the container is <ul>
AddNavLink(page, nav, new_page, random_id) ==
    LET existing_links == LinksOf(page, nav)
        first_link == page.nodes[existing_links[1]]
        text == <<TextItem(new_page.nav_link_text)>>
        href == "href" :> new_page.filename
        new_link ==
            IF existing_links = <<>>
            THEN Tag("a", "", href, NoClass, text)
            ELSE IF "data-ncd-file" \in DOMAIN first_link.attrs
                    /\ first_link.attrs["data-ncd-file"] # EmptyStr
            THEN Tag("a", random_id,
                     href @@ "data-ncd-file" :> <<IndexFile>> @@ "data-ncd-type" :> <<"link">>,
                     ClassList(first_link), text)
            ELSE Tag("a", "", href, ClassList(first_link), text)
        n == Len(page.nodes)
    IN IF page.nodes[nav].tag = "ul"
       THEN [page EXCEPT
                !.nodes = [@ EXCEPT ![nav].content = Append(@, ElemItem(n + 1))]
                          \o <<Tag("li", "", <<>>, NoClass, <<ElemItem(n + 2)>>), new_link>>]
       ELSE [page EXCEPT
                !.nodes = [@ EXCEPT ![nav].content = Append(@, ElemItem(n + 1))]
                          \o <<new_link>>]

\* the body of update_all_pages' loop for one file other than the new page
UpdatePage(page, new_page, random_id) ==
    LET nav == FindNavElement(page) IN
    IF nav # NoNode /\ ~LinkExists(page, nav, new_page.filename)
    THEN [page |-> Prettify(AddNavLink(page, nav, new_page, random_id)), updated |-> 1]
    ELSE [page |-> page, updated |-> 0]

\* the files for which update_all_pages reaches random.randint: a link is
\* added and the container's first link has data-ncd-file
Drawing(files, new_page) ==
    {f \in DOMAIN files \ {new_page.name} :
        LET nav == FindNavElement(files[f]) IN
        /\ nav # NoNode
        /\ ~LinkExists(files[f], nav, new_page.filename)
        /\ LinksOf(files[f], nav) # <<>>
        /\ LET first_link == files[f].nodes[LinksOf(files[f], nav)[1]]
           IN /\ "data-ncd-file" \in DOMAIN first_link.attrs
              /\ first_link.attrs["data-ncd-file"] # EmptyStr}

\* the identifier drawn for a file, "" where none is drawn
Drawn(draws, f) == IF f \in DOMAIN draws THEN draws[f] ELSE ""

\* update_all_pages: `draws` gives the identifier random.randint draws for
\* each file it is called for; the new page itself is skipped
RECURSIVE CountUpdated(_, _, _, _)
CountUpdated(files, todo, new_page, draws) ==
    IF todo = {} THEN 0
    ELSE LET f == CHOOSE x \in todo : TRUE
         IN (IF f = new_page.name THEN 0
             ELSE UpdatePage(files[f], new_page, Drawn(draws, f)).updated)
            + CountUpdated(files, todo \ {f}, new_page, draws)

UpdateAllPages(files, new_page, draws) ==
    [html |-> [f \in DOMAIN files |->
                  IF f = new_page.name THEN files[f]
                  ELSE UpdatePage(files[f], new_page, Drawn(draws, f)).page],
     updated_count |-> CountUpdated(files, DOMAIN files, new_page, draws)]

\* the identifiers f"ncd-{random.randint(1000, 9999):04d}" may give: the two
\* ends of the range stand for all of it
RandomIds == {"ncd-1000", "ncd-9999"}

PricingFile == "pricing.html"
BlogFile == "blog.html"

\* page_data of the pages a chat message may ask for: `name` is the file name
\* where the code compares it, `filename` the same name where it is searched
\* in an href
NewPages ==
    {[name |-> PricingFile, filename |-> <<"pricing", ".html">>,
      nav_link_text |-> <<"Pricing">>],
     [name |-> BlogFile, filename |-> <<"blog", ".html">>,
      nav_link_text |-> <<"Blog">>]}

IndexHref == <<"index", ".html">>
NavLinkClass == <<"nav-link">>

\* page_data['html_content']: the page creator copies the navigation structure
\* into the new page; its markup does not go through the injector
NewPageMarkup(new_page) ==
    [root |-> <<ElemItem(1), ElemItem(5)>>,
     nodes |-> <<Tag("nav", "", <<>>, NoClass, <<ElemItem(2)>>),
                 Tag("ul", "", <<>>, NoClass, <<ElemItem(3)>>),
                 Tag("li", "", <<>>, NoClass, <<ElemItem(4)>>),
                 Tag("a", "", ("href" :> IndexHref), <<NavLinkClass>>, <<TextItem(Home)>>),
                 Tag("h1", "", <<>>, NoClass, <<TextItem(new_page.nav_link_text)>>)>>]

\* the generated site: index.html with <ul class="nav-links"> holding one
\* stamped link; about.html with <nav><ul> whose link somebody pointed to
\* pricing.html by hand; contact.html with <div class="menu"> without a link;
\* terms.html without navigation
NavSite ==
    (IndexFile :> InjectNcdAttributes(
        [html |-> [root |-> <<ElemItem(1)>>,
                   nodes |-> <<Tag("ul", "", <<>>, <<NavLinks>>, <<ElemItem(2)>>),
                               Tag("li", "", <<>>, NoClass, <<ElemItem(3)>>),
                               Tag("a", "", ("href" :> IndexHref), <<NavLinkClass>>,
                                   <<TextItem(Home)>>)>>],
         css |-> BaseCss]).html)
    @@ (AboutFile :> InjectNcdAttributes(
        [html |-> [root |-> <<ElemItem(1)>>,
                   nodes |-> <<Tag("nav", "", <<>>, NoClass, <<ElemItem(2)>>),
                               Tag("ul", "", <<>>, NoClass, <<ElemItem(3)>>),
                               Tag("a", "", ("href" :> <<"/", "pricing", ".html">>),
                                   NoClass, <<TextItem(<<"Pricing">>)>>)>>],
         css |-> <<>>]).html)
    @@ (ContactFile :> InjectNcdAttributes(
        [html |-> [root |-> <<ElemItem(1), ElemItem(2)>>,
                   nodes |-> <<Tag("div", "", <<>>, <<<<"main-", "menu">>>>, <<>>),
                               Tag("p", "", <<>>, NoClass, <<TextItem(<<"Mail">>)>>)>>],
         css |-> <<>>]).html)
    @@ ("terms.html" :> InjectNcdAttributes(
        [html |-> [root |-> <<ElemItem(1)>>,
                   nodes |-> <<Tag("p", "", <<>>, NoClass, <<TextItem(<<"Terms">>)>>)>>],
         css |-> <<>>]).html)

\* routers/chat.py _handle_page_creation, after the page creator has
\* answered: the page is written, then every other page's navigation is
\* updated; the response carries nav_updated_count (kept in last.target)
HandlePageCreation(new_page, draws) ==
    LET written == (new_page.name :> NewPageMarkup(new_page)) @@ html
        out == UpdateAllPages(written, new_page, draws)
    IN /\ html' = out.html
       /\ last' = Resp("create_page", new_page.name, out.updated_count, 200, "", 0, <<>>)
       /\ UNCHANGED <<css, registryFile, historyDir, req, sessionStatus, registries,
                      acked, gen, returned, liveAt, snap>>

\* the sessions a page is created in: index.html and any of the other pages
NavSites ==
    {[f \in S \cup {IndexFile} |-> NavSite[f]] : S \in SUBSET (DOMAIN NavSite)}

InitNav ==
    /\ html \in NavSites
    /\ css = MainCss
    /\ registryFile = <<>>
    /\ historyDir = <<>>
    /\ req = [r \in Reqs |-> Idle]
    /\ sessionStatus = "website_generated"
    /\ last = Resp("none", "", 0, 0, "", 0, <<>>)
    /\ registries = [i \in Insts |-> NoRegistry]
    /\ acked = {}
    /\ gen = GenDone
    /\ returned = <<>>
    /\ liveAt = <<>>
    /\ snap = (0 :> [html |-> html, css |-> MainCss])

NavNext ==
    \E new_page \in NewPages :
        \E draws \in [Drawing(html, new_page) -> RandomIds] :
            HandlePageCreation(new_page, draws)

SpecNav == InitNav /\ [][NavNext]_vars

(***************************************************************************)
(* Properties.                                                             *)
(***************************************************************************)
LatestVersion == GetLatestVersion(historyDir)

\* the last response is a successful rollback
RolledBack == last.op = "rollback" /\ last.status = 200

\* C1: starting from an empty history, the versions returned by successive
\* save_diff calls are 1, 2, 3, ... without gap or repeat, each call made on an
\* EditHistory built from the stored diffs after the previous call (SpecSeq).
MonotonicVersions == \A i \in 1..Len(returned) : returned[i] = i

MonotonicVersionsWitness ==
    /\ Len(returned) >= 2
    /\ DOMAIN historyDir = 1..Len(returned)

\* C2: when two structured_edit requests overlap, their two diffs get distinct
\* versions and both stay retrievable: no version is returned twice and every
\* committed diff has its own file.
AtomicVersions ==
    /\ \A i, j \in 1..Len(returned) : i # j => returned[i] # returned[j]
    /\ Cardinality(DOMAIN historyDir) = Len(returned)

\* a step in which a rollback succeeds, taken with the documents as the latest
\* committed diff left them
RollbackFromHead ==
    /\ last' # last
    /\ last'.op = "rollback"
    /\ last'.status = 200
    /\ html = snap[LatestVersion].html
    /\ css = snap[LatestVersion].css

\* C3: after N committed mutations, a rollback to version k leaves every
\* document in the state it had right after diff k was committed.
RollbackRestores ==
    [][RollbackFromHead => /\ html' = snap[last'.target].html
                           /\ css' = snap[last'.target].css]_vars

\* C4: for every target from 0 to the current version, rollback_to returns the
\* recorded diffs of the versions above the target, all of them and no other,
\* by descending version; there are current version minus target of them.
RollbackPlanExact ==
    \A target \in 0..LatestVersion :
        LET plan == RollbackTo(historyDir, LatestVersion, target) IN
        /\ plan.ok
        /\ Len(plan.diffs) = LatestVersion - target
        /\ \A i \in 1..Len(plan.diffs) :
              /\ plan.diffs[i].version = LatestVersion - i + 1
              /\ HasDiff(historyDir, plan.diffs[i].version)
              /\ plan.diffs[i] = GetDiff(historyDir, plan.diffs[i].version)
        /\ \A v \in DOMAIN historyDir :
              v > target => \E i \in 1..Len(plan.diffs) : plan.diffs[i] = historyDir[v]

RollbackPlanWitness ==
    /\ RolledBack
    /\ last.target = 0
    /\ Len(last.versions) = 2
    /\ last.versions[1].version = 2
    /\ last.versions[2].version = 1

\* C5: a rollback whose target is negative or above the current version answers
\* with the invalid-version error and leaves the diffs, the current version and
\* every document as they were.
InvalidRollbackRejected ==
    [][(/\ last' # last
        /\ last'.op = "rollback"
        /\ (last'.target < 0 \/ last'.target > LatestVersion))
       => (/\ last'.status = 500
           /\ last'.detail = "Invalid version"
           /\ historyDir' = historyDir
           /\ GetLatestVersion(historyDir') = LatestVersion
           /\ html' = html
           /\ css' = css)]_vars

InvalidRollbackWitness ==
    /\ last.op = "rollback"
    /\ last.status = 500
    /\ last.detail = "Invalid version"
    /\ last.target < 0
    /\ LatestVersion >= 1

\* C6: the history is append-only: a recorded diff is never deleted and its
\* content never replaced, whatever runs afterwards.
AppendOnly ==
    [][\A v \in DOMAIN historyDir :
          HasDiff(historyDir', v) /\ GetDiff(historyDir', v) = GetDiff(historyDir, v)]_vars

\* C7: the before value of every recorded diff is the live value that the
\* mutated text, attribute, style property or class membership had when the
\* mutation was applied.
BeforeIsLive == \A v \in DOMAIN historyDir : historyDir[v].before = liveAt[v]

\* the value a property has in the scoped block of an id, "" when it has none
StyleValue(sheet, ncd_id, prop) ==
    LET m == FindRule(sheet, ncd_id)
        hits == IF m = 0 THEN {}
                ELSE {i \in 1..Len(sheet[m].decls) : sheet[m].decls[i].prop = prop}
    IN IF hits = {} THEN EmptyStr
       ELSE Strip(sheet[m].decls[CHOOSE i \in hits : \A j \in hits : i <= j].val)

StyleProps(sheet, ncd_id) ==
    LET m == FindRule(sheet, ncd_id) IN
    IF m = 0 THEN {} ELSE {sheet[m].decls[i].prop : i \in 1..Len(sheet[m].decls)}

\* C8: after a rollback across style diffs, every property of every scoped
\* block has the value it had before those edits (a property without a value
\* counting as empty): the undone property is back and no other was changed.
StyleUndone ==
    [][RollbackFromHead =>
        \A ncd_id \in PageIds :
            \A prop \in StyleProps(css', ncd_id)
                        \cup StyleProps(snap[last'.target].css, ncd_id) :
                StyleValue(css', ncd_id, prop)
                    = StyleValue(snap[last'.target].css, ncd_id, prop)]_vars

\* C9: after a rollback across add_class, remove_class and attribute diffs,
\* every element still in the page has the class list and the attribute values
\* it had before those edits.
ClassAndAttributeUndone ==
    [][RollbackFromHead =>
        \A f \in DOMAIN html : \A m \in NodeIds :
            LET now == html'[f].nodes[m]
                was == snap[last'.target].html[f].nodes[m]
            IN now.live /\ was.live =>
                  /\ ClassList(now) = ClassList(was)
                  /\ now.attrs = was.attrs]_vars

\* C10: update_html_text followed by update_html_text with the old value the
\* first call returned gives back the page as it was, for every element of the
\* page and every new text.
TextRoundTrip ==
    \A f \in DOMAIN html : \A ncd_id \in PageIds : \A new_text \in {Hi, PaddedHi} :
        LET first == UpdateHtmlText(html[f], ncd_id, new_text)
            second == UpdateHtmlText(first.page, ncd_id, first.old_value)
        IN first.ok => second.ok /\ second.page = html[f]

\* the child elements of a node, in order
ChildElements(page, n) ==
    SelectSeq(page.nodes[n].content, LAMBDA item : item.kind = "elem")

\* C11: update_html_text on an element changes only that element's text: its
\* tag, its identifier, its other attributes, its classes and its child
\* elements are the same after the call as before.
TextOnlyChanged ==
    \A f \in DOMAIN html : \A ncd_id \in PageIds :
        LET page == html[f]
            n == Find(page, ncd_id)
            result == UpdateHtmlText(page, ncd_id, Hi)
        IN n # NoNode =>
              /\ result.ok
              /\ result.page.nodes[n].tag = page.nodes[n].tag
              /\ result.page.nodes[n].id = page.nodes[n].id
              /\ result.page.nodes[n].attrs = page.nodes[n].attrs
              /\ result.page.nodes[n].cls = page.nodes[n].cls
              /\ ChildElements(result.page, n) = ChildElements(page, n)

\* C12: isolation: after update_html_text on component A, every other
\* component of the document, also one nested inside A, is still present with
\* the same text, attributes and classes.
TextIsolation ==
    \A f \in DOMAIN html : \A a \in PageIds : \A b \in PageIds \ {a} :
        LET page == html[f]
            result == UpdateHtmlText(page, a, Hi)
            was == Find(page, b)
            now == Find(result.page, b)
        IN (result.ok /\ was # NoNode) =>
              /\ now # NoNode
              /\ GetText(result.page, result.page.nodes[now].content)
                    = GetText(page, page.nodes[was].content)
              /\ result.page.nodes[now].attrs = page.nodes[was].attrs
              /\ ClassList(result.page.nodes[now]) = ClassList(page.nodes[was])

\* C13: CSS scoping: update_css_property(id, p, v) gives p the value v in the
\* block of id and changes nothing else: every other property of that block,
\* also one whose name ends with p, and every other block keep their values.
CssScoping ==
    \A ncd_id \in PageIds : \A p \in {Color, BackgroundColor} : \A v \in {Red, Blue} :
        LET sheet == UpdateCssProperty(css, ncd_id, p, v).sheet IN
        /\ StyleValue(sheet, ncd_id, p) = v
        /\ \A q \in (StyleProps(css, ncd_id) \cup StyleProps(sheet, ncd_id)) \ {p} :
              StyleValue(sheet, ncd_id, q) = StyleValue(css, ncd_id, q)
        /\ \A i \in 1..Len(css) :
              (css[i].sel # Selector(ncd_id) \/ i # FindRule(css, ncd_id)) =>
                 (i <= Len(sheet) /\ sheet[i] = css[i])

MissingComponentNoEffect ==
    [][\A r \in Reqs :
         /\ \A ncd_id \in PageIds :
               (StructuredEditBegin(r, ncd_id) /\ ~Registered(registryFile, ncd_id)) =>
                  /\ last'.status = 404
                  /\ html' = html /\ css' = css /\ historyDir' = historyDir
                  /\ returned' = returned
         /\ \A edit_plan \in Plans :
               (/\ StructuredEditFinish(r, edit_plan)
                /\ edit_plan.action \in {"UPDATE_TEXT", "UPDATE_ATTRIBUTE",
                                          "ADD_CLASS", "REMOVE_CLASS"}
                /\ Find(html[req[r].component.file], req[r].ncd_id) = NoNode) =>
                  /\ last'.status = 500
                  /\ html' = html /\ css' = css /\ historyDir' = historyDir
                  /\ GetLatestVersion(historyDir') = LatestVersion
                  /\ returned' = returned]_vars

\* a registered id whose element is gone from the page was edited and refused
MissingComponentWitness ==
    /\ last.op = "structured_edit"
    /\ last.status = 500
    /\ last.detail = "Element not found"
    /\ Registered(registryFile, last.ncd_id)
    /\ Find(html[IndexFile], last.ncd_id) = NoNode
    /\ LatestVersion >= 1

\* C16: registering an identifier that the registry already holds leaves the
\* existing record as it is: the record that get(id) returns never changes
\* once the id has been registered.
RegisteredImmutable ==
    [][\A ncd_id \in DOMAIN registryFile :
          Registered(registryFile', ncd_id) => registryFile'[ncd_id] = registryFile[ncd_id]]_vars

\* C17: a successful register is never lost: every id whose register() call
\* has returned is in the registry that a ComponentRegistry loads afterwards,
\* also after register calls made through an object loaded earlier.
RegisterNeverLost ==
    \A ncd_id \in acked : Registered(LoadRegistry(registryFile).components, ncd_id)

\* the elements of the site that carry an identifier: (file, node) pairs
Stamped ==
    {fn \in (DOMAIN html) \X NodeIds :
        html[fn[1]].nodes[fn[2]].live /\ html[fn[1]].nodes[fn[2]].id # ""}

\* C18: identifiers are unique across the whole site: once every page of the
\* generation run is injected, no identifier is carried by two elements, on
\* the same page or on different pages.
SiteWideUniqueIds ==
    gen.pc = "done" =>
        \A x, y \in Stamped :
            x # y => html[x[1]].nodes[x[2]].id # html[y[1]].nodes[y[2]].id

\* C19: idempotent injection: the injector run again on injected markup
\* assigns no identifier and leaves every element's identifier, and the page,
\* as they were; the registry is no output of the injector.
InjectionIdempotent ==
    \A f \in DOMAIN html :
        LET again == InjectNcdAttributes([html |-> html[f], css |-> css]) IN
        /\ again.assigned = 0
        /\ \A m \in NodeIds : again.html.nodes[m].id = html[f].nodes[m].id
        /\ again.html = html[f]
        /\ again.css = css

\* every page of the run is written; one holds three stamped elements, one an
\* element that came with its own identifier and an unstamped tag
InjectionIdempotentWitness ==
    /\ gen.pc = "done"
    /\ DOMAIN html = {IndexFile, AboutFile, ContactFile}
    /\ \A m \in NodeIds : html[IndexFile].nodes[m].id = NcdId(m)
    /\ html[AboutFile].nodes[1].id = "hero"
    /\ html[AboutFile].nodes[2].id = ""
    /\ html[AboutFile].nodes[3].id = "ncd-0001"

\* C20: the registry is populated by the injector: every identifier stamped
\* into a generated page has a record in the registry, and a structured edit
\* addressed to a stamped identifier finds its component.
RegistryPopulated ==
    /\ \A x \in Stamped : Registered(registryFile, html[x[1]].nodes[x[2]].id)
    /\ (last.op = "structured_edit"
          /\ \E x \in Stamped : html[x[1]].nodes[x[2]].id = last.ncd_id)
        => last.status # 404

\* the documents whose navigation container links to the page's file name
LinkedTo(files, new_page) ==
    {f \in DOMAIN files :
        /\ FindNavElement(files[f]) # NoNode
        /\ LinkExists(files[f], FindNavElement(files[f]), new_page.filename)}

\* C21: navigation propagation is idempotent: a document whose navigation
\* already links to the new page is not modified and not counted, the returned
\* count is the number of documents modified, and a second call with the same
\* new page modifies nothing and returns 0.
NavPropagationIdempotent ==
    [][\A new_page \in NewPages :
          (last' # last /\ last'.op = "create_page" /\ last'.ncd_id = new_page.name) =>
             /\ \A f \in LinkedTo(html, new_page) : html'[f] = html[f]
             /\ last'.target = Cardinality({f \in DOMAIN html \ {new_page.name} :
                                                  html'[f] # html[f]})
             /\ \A draws \in [Drawing(html', new_page) -> RandomIds] :
                   LET again == UpdateAllPages(html', new_page, draws)
                   IN again.updated_count = 0 /\ again.html = html']_vars

\* pricing.html was created in a session of two pages: about.html linked to
\* it already and is as generated, index.html got the link, the count is 1
NavPropagationWitness ==
    /\ last.op = "create_page"
    /\ last.ncd_id = PricingFile
    /\ last.target = 1
    /\ DOMAIN html = {IndexFile, AboutFile, PricingFile}
    /\ html[AboutFile] = NavSite[AboutFile]
    /\ html[IndexFile] # NavSite[IndexFile]

\* the identifiers carried by the elements of a site
IdsOf(files) ==
    UNION {{files[f].nodes[m].id : m \in DOMAIN files[f].nodes} : f \in DOMAIN files} \ {""}

\* the links a step has inserted into the documents that were there before it
Inserted ==
    {fn \in UNION {{f} \X (DOMAIN html'[f].nodes) : f \in DOMAIN html} :
        /\ fn[2] > Len(html[fn[1]].nodes)
        /\ html'[fn[1]].nodes[fn[2]].tag = "a"}

\* C22: every navigation link inserted by update_all_pages carries an
\* identifier, the identifier is on no element the site had before and on no
\* other inserted link, and it is registered in the component registry.
InsertedLinksFresh ==
    [][(last' # last /\ last'.op = "create_page") =>
          \A x \in Inserted :
              LET id == html'[x[1]].nodes[x[2]].id
              IN /\ id # ""
                 /\ id \notin IdsOf(html)
                 /\ \A y \in Inserted \ {x} : html'[y[1]].nodes[y[2]].id # id
                 /\ Registered(LoadRegistry(registryFile').components, id)]_vars

\* the five operations structured_edit knows
KnownActions == {"UPDATE_TEXT", "UPDATE_STYLE", "UPDATE_ATTRIBUTE", "ADD_CLASS", "REMOVE_CLASS"}

\* C23: a planner result whose operation is none of the five known ones is
\* rejected: structured_edit fails, no document is modified, no diff is
\* recorded and the current version does not advance.
UnknownActionRejected ==
    [][\A r \in Reqs : \A edit_plan \in Plans :
          (edit_plan.action \notin KnownActions /\ StructuredEditFinish(r, edit_plan)) =>
             /\ last'.status = 500
             /\ html' = html
             /\ css' = css
             /\ historyDir' = historyDir
             /\ GetLatestVersion(historyDir') = GetLatestVersion(historyDir)]_vars

\* an unknown operation was refused in a session that has a recorded edit
UnknownActionWitness ==
    /\ last.op = "structured_edit"
    /\ last.status = 500
    /\ last.detail = "Unknown action"
    /\ GetLatestVersion(historyDir) > 0

\* C24: a planner result that names a known operation and lacks a required
\* parameter of it is rejected as an invalid operation: no document is
\* modified and no diff is recorded.
MissingParameterRejected ==
    [][\A r \in Reqs : \A edit_plan \in IncompletePlans :
          StructuredEditFinish(r, edit_plan) =>
             /\ last'.status # 200
             /\ html' = html
             /\ css' = css
             /\ historyDir' = historyDir]_vars

\* C25: an operation incompatible with the component's edit kind is rejected
\* before any mutation: a style mutation requested against a component whose
\* edit kind is text modifies no document and records no diff.
IncompatibleRejected ==
    [][\A r \in Reqs : \A edit_plan \in Plans :
          (/\ req[r].pc = "await"
           /\ req[r].component.edit_type = "text"
           /\ edit_plan.action = "UPDATE_STYLE"
           /\ StructuredEditFinish(r, edit_plan)) =>
             /\ last'.status # 200
             /\ html' = html
             /\ css' = css
             /\ historyDir' = historyDir]_vars

\* the markup mutations of the engine, as the router calls them
Mutations ==
    {[action |-> "UPDATE_TEXT", parameters |-> ("new_text" :> Hi)],
     [action |-> "UPDATE_ATTRIBUTE",
      parameters |-> ("attribute" :> "href" @@ "value" :> PricingUrl)],
     [action |-> "ADD_CLASS", parameters |-> ("class_name" :> Highlight)],
     [action |-> "REMOVE_CLASS", parameters |-> ("class_name" :> Title)]}

\* one mutation applied to a page through the engine
Mutate(page, ncd_id, mutation) ==
    LET params == mutation.parameters
        result ==
            IF mutation.action = "UPDATE_TEXT"
            THEN UpdateHtmlText(page, ncd_id, params["new_text"])
            ELSE IF mutation.action = "UPDATE_ATTRIBUTE"
            THEN UpdateHtmlAttribute(page, ncd_id, params["attribute"], params["value"])
            ELSE IF mutation.action = "ADD_CLASS"
            THEN AddHtmlClass(page, ncd_id, params["class_name"])
            ELSE RemoveHtmlClass(page, ncd_id, params["class_name"])
    IN [ok |-> result.ok, page |-> result.page]

\* C26: commutativity: two mutations that target different identifiers
\* present in a document succeed in either order and give the same final
\* document, also when one of the two components is nested inside the other.
MutationsCommute ==
    \A f \in DOMAIN html : \A a \in PageIds : \A b \in PageIds \ {a} :
        \A m1 \in Mutations : \A m2 \in Mutations :
            LET page == html[f]
                ab == Mutate(Mutate(page, a, m1).page, b, m2)
                ba == Mutate(Mutate(page, b, m2).page, a, m1)
            IN (Find(page, a) # NoNode /\ Find(page, b) # NoNode) =>
                  /\ Mutate(page, a, m1).ok /\ ab.ok
                  /\ Mutate(page, b, m2).ok /\ ba.ok
                  /\ ab.page = ba.page

\* the declarations of a block that name exactly the property
Holds(decls, prop) == {i \in 1..Len(decls) : decls[i].prop = prop}

\* C27: update_css_property has three cases: the block holds the property,
\* then only that property's value is replaced and old_value is its prior
\* value; the block exists without the property, then the property is
\* appended to the block and old_value is empty; there is no block, then a
\* block holding only the property is appended after the unchanged sheet and
\* old_value is empty.  In each case the block then holds the property
\* exactly once, with the new value.
CssThreeCases ==
    \A ncd_id \in PageIds : \A prop \in {Color, BackgroundColor} : \A v \in {Red, Blue} :
        LET m == FindRule(css, ncd_id)
            out == UpdateCssProperty(css, ncd_id, prop, v)
            n == FindRule(out.sheet, ncd_id)
            block == out.sheet[n].decls
        IN /\ n # 0
           /\ Cardinality(Holds(block, prop)) = 1
           /\ \A i \in Holds(block, prop) : block[i].val = v
           /\ IF m = 0
              THEN /\ out.sheet = Append(css, [sel |-> Selector(ncd_id),
                                               decls |-> <<Decl(prop, v)>>])
                   /\ OrEmpty(out.old_value) = EmptyStr
              ELSE IF Holds(css[m].decls, prop) = {}
              THEN /\ block = Append(css[m].decls, Decl(prop, v))
                   /\ OrEmpty(out.old_value) = EmptyStr
              ELSE /\ Len(block) = Len(css[m].decls)
                   /\ \A i \in 1..Len(block) :
                         block[i] = IF i \in Holds(css[m].decls, prop)
                                    THEN Decl(prop, v) ELSE css[m].decls[i]
                   /\ \E i \in Holds(css[m].decls, prop) :
                         out.old_value = Strip(css[m].decls[i].val)

\* C28: rollback rewinds the current version: when rollback_edit to version k
\* has succeeded and no mutation was recorded since, get_edit_history, which
\* builds an EditHistory of its own, reports k as the current version.
RollbackRewinds ==
    [][(RolledBack /\ last'.op = "history") =>
          /\ last'.version = last.target
          /\ GetLatestVersion(historyDir') = last.target]_vars

\* a step in which generate's injector call returns
Injected == gen.pc = "generate" /\ gen'.pc = "pages"

\* C29 as stated: injection does not touch CSS, the stylesheet passed to the
\* injector is returned unchanged.
CssUntouched == [][Injected => css' = BaseCss]_vars

\* the identifiers the editable elements of a page carry, in document order
CarriedIds(page) ==
    LET order == SelectSeq(Walk(page, page.root),
                           LAMBDA n : page.nodes[n].tag \in EditableTags
                                      /\ page.nodes[n].id # "")
    IN [i \in 1..Len(order) |-> page.nodes[order[i]].id]

\* C29 amended: injection of a stylesheet without the marker comment returns
\* the stylesheet followed by the marker comment and one empty scoped block
\* for each identifier the editable elements of the returned markup carry, in
\* document order, its rules unchanged; a stylesheet that holds the marker
\* is returned unchanged.
ScopedCssAppended ==
    [][Injected =>
          LET ids == CarriedIds(gen'.base)
              n == Len(BaseCss)
          IN /\ Len(css') = n + 1 + Len(ids)
             /\ SubSeq(css', 1, n) = BaseCss
             /\ css'[n + 1] = ScopedMarker
             /\ \A i \in 1..Len(ids) :
                   css'[n + 1 + i] = [sel |-> Selector(ids[i]), decls |-> <<>>]
             /\ InjectNcdAttributes([html |-> gen'.base, css |-> css']).css = css']_vars

\* the injector has returned a stylesheet with the marker and the blocks of
\* two identifiers: one the markup carried before, one stamped in this run
ScopedCssWitness ==
    /\ gen.pc = "pages"
    /\ Len(css) = Len(BaseCss) + 3
    /\ css[Len(BaseCss) + 1] = ScopedMarker
    /\ css[Len(BaseCss) + 2] = [sel |-> Selector("hero"), decls |-> <<>>]
    /\ css[Len(BaseCss) + 3] = [sel |-> Selector("ncd-0001"), decls |-> <<>>]

\* C30: a rollback is all-or-nothing: when replaying a diff of the rollback
\* plan fails, rollback_edit leaves every document as it was before the
\* rollback started.
RollbackAllOrNothing ==
    [][\A version \in Targets(historyDir) :
          (RollbackEdit(version) /\ last'.status # 200) =>
             (html' = html /\ css' = css)]_vars

====
